---- MODULE Spec2Model ----
(***************************************************************************)
(* Model of the two Suada adapters:                                        *)
(*   - src/python/suada_mcp.py    : SuadaMCP.process, the direct client    *)
(*   - src/python/suada_server.py : the business_analyst and               *)
(*                                  data_retrieval tool handlers           *)
(*                                                                         *)
(* Python values are tagged records so that None, text, numbers, mappings  *)
(* and sequences can be told apart and compared:                           *)
(*   NoneV, Str(s), Num(n), Dict(d), List(l).                              *)
(***************************************************************************)
EXTENDS Integers, Sequences, FiniteSets, TLC

VARIABLES
    client,         \* the SuadaMCP instance: api_key, base_url, external_user_identifier
    json_error_cls, \* class that Response.json() raises in the installed requests build
    pc,             \* position of process: "idle", "in_flight", "returned", "raised"
    request,        \* the MCPRequest of the current invocation of process
    posts,          \* the requests.post calls made by the current invocation
    outcome,        \* what requests.post did: a raised exception or a returned response
    result,         \* what process handed to its caller: a Response or an exception
    inv             \* the tool-handler invocations of the server, one record per slot

clientVars == <<client, json_error_cls, pc, request, posts, outcome, result>>
serverVars == <<inv>>
vars == <<client, json_error_cls, pc, request, posts, outcome, result, inv>>

-----------------------------------------------------------------------------
(* Python values *)

NoneV == [t |-> "None"]
Str(s) == [t |-> "str", s |-> s]
Num(n) == [t |-> "int", n |-> n]
Dict(d) == [t |-> "dict", d |-> d]
List(l) == [t |-> "list", l |-> l]

EmptyMap == [k \in {} |-> NoneV]

IsDict(v) == v.t = "dict"

\* Python truth value of v, as used by `or`, `not` and `if`.
Truthy(v) ==
    CASE v.t = "None" -> FALSE
      [] v.t = "str"  -> v.s # ""
      [] v.t = "int"  -> v.n # 0
      [] v.t = "dict" -> DOMAIN v.d # {}
      [] v.t = "list" -> v.l # <<>>

\* a or b
Or(a, b) == IF Truthy(a) THEN a ELSE b

\* dict.get(key, default)
Get(data, key, default) == IF key \in DOMAIN data.d THEN data.d[key] ELSE default

\* `key in v`: "true", "false", or "raise" (TypeError: not a container).
In(key, v) ==
    CASE v.t = "dict" -> IF key \in DOMAIN v.d THEN "true" ELSE "false"
      [] v.t = "list" -> IF \E i \in 1..Len(v.l) : v.l[i] = Str(key) THEN "true" ELSE "false"
      [] OTHER        -> "raise"

-----------------------------------------------------------------------------
(* The direct client: construction *)

\* str.rstrip("/") on a URL given as its pieces, trailing slashes being
\* pieces of their own.
RECURSIVE RStrip(_)
RStrip(u) ==
    IF u # <<>> /\ u[Len(u)] = "/" THEN RStrip(SubSeq(u, 1, Len(u) - 1)) ELSE u

RECURSIVE Join(_)
Join(u) == IF u = <<>> THEN "" ELSE Head(u) \o Join(Tail(u))

SuadaMCPInit(api_key, base_url, external_user_identifier) ==
    [api_key |-> api_key,
     base_url |-> Join(RStrip(base_url)),
     external_user_identifier |-> external_user_identifier]

GetHeaders(c) ==
    [Authorization |-> "Bearer " \o c.api_key,
     ContentType |-> "application/json",
     Accept |-> "application/json",
     UserAgent |-> "SuadaMCP/1.0 Python"]

-----------------------------------------------------------------------------
(* The direct client: inputs *)

BaseUrls ==
    {<<"https://suada.ai/api/public">>,
     <<"https://suada.ai/api/public", "/">>,
     <<"https://suada.ai/api/public", "/", "/">>}

DefaultUserIds == {NoneV, Str(""), Str("default_user")}

Queries == {Str("What's our revenue trend?")}
Contexts == {Dict(EmptyMap), Dict([timeframe |-> Str("last_quarter")])}
UserIds == {NoneV, Str(""), Str("u1")}
ConversationIds == {NoneV, Str(""), Str("c1")}
Metadatas == {Dict(EmptyMap), Dict([trace |-> Str("t1")])}

MCPRequest ==
    [query : Queries, context : Contexts, user_id : UserIds,
     conversation_id : ConversationIds, metadata : Metadatas]

NoRequest == [t |-> "no_request"]
NoOutcome == [t |-> "no_outcome"]
NoResult == [kind |-> "none"]

\* Bodies an upstream reply can carry: text that is not JSON, or a JSON value.
NotJson == [json |-> FALSE]
Json(v) == [json |-> TRUE, val |-> v]

FullBody ==
    Dict([response |-> Str("Revenue grew 12%"),
          metrics |-> Dict([revenue |-> Num(12)]),
          insights |-> List(<<Str("growth")>>),
          recommendations |-> List(<<Str("invest")>>),
          risks |-> List(<<Str("churn")>>),
          reasoning |-> Str("because")])

Bodies ==
    {NotJson,
     Json(FullBody),
     Json(Dict([response |-> Str("ok")])),
     Json(Dict([response |-> Str("ok"), metrics |-> NoneV])),
     Json(Dict(EmptyMap)),
     Json(Dict([message |-> Str("Invalid API key")])),
     Json(Dict([message |-> NoneV])),
     Json(List(<<Str("message")>>)),
     Json(NoneV)}

StatusCodes == {200, 304, 404, 500}

HttpResponses == [status_code : StatusCodes, body : Bodies]

\* Exceptions requests.post can raise by itself.  Every
\* requests.exceptions.RequestException carries a `response` attribute, which
\* is None when no HTTP response was received; other exceptions have none.
TransportErrors ==
    {[cls |-> "ConnectionError", is_request_exception |-> TRUE,
      msg |-> "connection refused", response |-> NoneV],
     [cls |-> "Timeout", is_request_exception |-> TRUE,
      msg |-> "timed out", response |-> NoneV],
     [cls |-> "UnicodeError", is_request_exception |-> FALSE,
      msg |-> "label too long"]}

\* The two builds of requests: Response.json() raises
\* requests.exceptions.JSONDecodeError (a RequestException) or a plain ValueError.
JsonErrorClasses == {"RequestException", "ValueError"}

-----------------------------------------------------------------------------
(* The direct client: SuadaMCP.process *)

Returned(r) == [kind |-> "returned", response |-> r]
Raised(cls) == [kind |-> "raised", exc |-> cls]

\* user_id = request.user_id or self.external_user_identifier
ResolveUserId(req, c) == Or(req.user_id, c.external_user_identifier)

\* Mutant: the check written as `if user_id is None`.
MissingUserId_OnlyNone(user_id) == user_id = NoneV

\* if not user_id: raise ValueError(...)
MissingUserId(user_id) == ~Truthy(user_id)

UserIdRequired ==
    [cls |-> "ValueError", is_request_exception |-> FALSE,
     msg |-> "User identifier is required. Provide it in the request or during initialization."]

\* Mutant: the conversation test written as `is not None`.
BuildPayload_ConversationNotNone(req, user_id) ==
    LET payload == [message |-> req.query,
                    externalUserIdentifier |-> user_id,
                    context |-> req.context]
    IN  IF req.conversation_id # NoneV
        THEN payload @@ ("conversationId" :> req.conversation_id)
        ELSE payload

BuildPayload(req, user_id) ==
    LET payload == [message |-> req.query,
                    externalUserIdentifier |-> user_id,
                    context |-> req.context]
    IN  IF Truthy(req.conversation_id)
        THEN payload @@ ("conversationId" :> req.conversation_id)
        ELSE payload

\* Mutant: the POST is sent a second time.
IssuePost_Twice(log, c, payload) ==
    LET call == [url |-> c.base_url \o "/chat",
                 headers |-> GetHeaders(c),
                 json |-> payload]
    IN  Append(Append(log, call), call)

\* requests.post(f"{self.base_url}/chat", headers=self._get_headers(), json=payload)
IssuePost(log, c, payload) ==
    Append(log, [url |-> c.base_url \o "/chat",
                 headers |-> GetHeaders(c),
                 json |-> payload])

\* response.raise_for_status(): HTTPError for a 4xx or 5xx status.
RaisesForStatus(resp) == resp.status_code >= 400 /\ resp.status_code < 600

HTTPError(resp) ==
    [cls |-> "HTTPError", is_request_exception |-> TRUE,
     msg |-> "HTTP error", response |-> resp]

\* What response.json() raises on a body that is not JSON.
JSONDecodeError(cls) ==
    IF cls = "RequestException"
    THEN [cls |-> "JSONDecodeError", is_request_exception |-> TRUE,
          msg |-> "Expecting value", response |-> NoneV]
    ELSE [cls |-> "ValueError", is_request_exception |-> FALSE,
          msg |-> "Expecting value"]

\* data.get on a parsed body that is not a mapping.
NoGetAttribute ==
    [cls |-> "AttributeError", is_request_exception |-> FALSE,
     msg |-> "object has no attribute 'get'"]

\* Mutant: data.get(key) without the defaults.
StructuredData_NoDefaults(data) ==
    Dict([metrics |-> Get(data, "metrics", NoneV),
          insights |-> Get(data, "insights", NoneV),
          recommendations |-> Get(data, "recommendations", NoneV),
          risks |-> Get(data, "risks", NoneV),
          reasoning |-> Get(data, "reasoning", NoneV)])

StructuredData(data) ==
    Dict([metrics |-> Get(data, "metrics", Dict(EmptyMap)),
          insights |-> Get(data, "insights", List(<<>>)),
          recommendations |-> Get(data, "recommendations", List(<<>>)),
          risks |-> Get(data, "risks", List(<<>>)),
          reasoning |-> Get(data, "reasoning", Str(""))])

SuccessResponse(data) ==
    [content |-> Get(data, "response", Str("")),
     metadata |-> Dict([suada_data |-> StructuredData(data),
                        raw_response |-> data]),
     error |-> NoneV]

HasAttr(e, name) == name \in DOMAIN e

GenericError == Str("Failed to communicate with Suada API")

\* Lines 147-154: the error text of a RequestException.  Whatever
\* e.response.json(), the `in` test or the subscript raises is swallowed by
\* the bare except, which leaves the generic text.
ErrorMessage(e) ==
    IF HasAttr(e, "response") /\ e.response # NoneV
    THEN IF ~e.response.body.json
         THEN GenericError
         ELSE LET error_data == e.response.body.val
              IN  IF In("message", error_data) = "true" /\ IsDict(error_data)
                  THEN error_data.d["message"]
                  ELSE GenericError
    ELSE GenericError

\* Mutant: the error text is also put in content.
RequestErrorResponse_ContentIsError(error_message, status_code) ==
    [content |-> error_message,
     error |-> error_message,
     metadata |-> Dict([status_code |-> status_code])]

RequestErrorResponse(error_message, status_code) ==
    [content |-> Str(""),
     error |-> error_message,
     metadata |-> Dict([status_code |-> status_code])]

\* except requests.exceptions.RequestException as e.  The metadata expression
\* reads e.response.status_code whenever e has a `response` attribute; with
\* e.response None that read raises AttributeError inside the handler, which
\* no clause of the try statement catches.
HandleRequestException(e) ==
    LET error_message == ErrorMessage(e)
    IN  IF HasAttr(e, "response")
        THEN IF e.response = NoneV
             THEN Raised("AttributeError")
             ELSE Returned(RequestErrorResponse(error_message,
                                                Num(e.response.status_code)))
        ELSE Returned(RequestErrorResponse(error_message, NoneV))

UnexpectedErrorResponse(e) ==
    [content |-> Str(""),
     error |-> Str("Unexpected error: " \o e.msg),
     metadata |-> Dict(EmptyMap)]

\* The two except clauses of process.
Except(e) ==
    IF e.is_request_exception
    THEN HandleRequestException(e)
    ELSE Returned(UnexpectedErrorResponse(e))

\* Lines 119-141: the rest of the try body once requests.post has returned.
AfterPost(resp, jcls) ==
    IF RaisesForStatus(resp) THEN Except(HTTPError(resp))
    ELSE IF ~resp.body.json THEN Except(JSONDecodeError(jcls))
    ELSE IF ~IsDict(resp.body.val) THEN Except(NoGetAttribute)
    ELSE Returned(SuccessResponse(resp.body.val))

\* process is called; it runs up to and including requests.post, or fails the
\* identifier check.
Process(req) ==
    /\ pc # "in_flight"
    /\ request' = req
    /\ outcome' = NoOutcome
    /\ LET user_id == ResolveUserId(req, client)
       IN  IF MissingUserId(user_id)
           THEN /\ posts' = <<>>
                /\ result' = Except(UserIdRequired)
                /\ pc' = "returned"
           ELSE /\ posts' = IssuePost(<<>>, client, BuildPayload(req, user_id))
                /\ result' = NoResult
                /\ pc' = "in_flight"
    /\ UNCHANGED <<client, json_error_cls, inv>>

Finish(o, r) ==
    /\ outcome' = o
    /\ result' = r
    /\ pc' = IF r.kind = "raised" THEN "raised" ELSE "returned"
    /\ UNCHANGED <<client, json_error_cls, request, posts, inv>>

\* requests.post raises.
PostRaises(e) ==
    /\ pc = "in_flight"
    /\ Finish([kind |-> "raised", exc |-> e], Except(e))

\* requests.post returns an HTTP response.
PostReturns(resp) ==
    /\ pc = "in_flight"
    /\ Finish([kind |-> "response", response |-> resp],
              AfterPost(resp, json_error_cls))

-----------------------------------------------------------------------------
(* The tool server: inputs *)

\* Number of tool invocations that can be in progress at once.
NumInv == 2

Slots == 1..NumInv

ToolQueries == {"top products", "revenue trend"}
DataSources == {"sales_db", "crm"}

\* What the SDK's chat call can hand back: an object whose attributes are
\* read by name, some of which may be None or missing.
ChatResponses ==
    {[response |-> Str("answer"),
      metrics |-> Dict([revenue |-> Num(12)]),
      insights |-> List(<<Str("growth")>>),
      recommendations |-> List(<<Str("invest")>>),
      risks |-> List(<<Str("churn")>>)],
     [response |-> Str("answer"), metrics |-> NoneV, insights |-> NoneV,
      recommendations |-> NoneV, risks |-> NoneV],
     [response |-> Str("answer")],
     [metrics |-> NoneV]}

\* What can be raised while the chat call is in progress.  is_exception tells
\* whether the class derives from Exception; KeyboardInterrupt and (from
\* Python 3.8 on) asyncio.CancelledError derive from BaseException only.
ChatErrors ==
    {[cls |-> "SuadaAPIError", is_exception |-> TRUE, msg |-> "upstream failed"],
     [cls |-> "CancelledError", is_exception |-> FALSE, msg |-> ""],
     [cls |-> "KeyboardInterrupt", is_exception |-> FALSE, msg |-> ""]}

\* What ChatPayload(message=...) raises when it rejects its argument.
PayloadError ==
    [cls |-> "ValidationError", is_exception |-> TRUE, msg |-> "invalid payload"]

PayloadOutcomes == {"constructed", "raises"}

AttributeError(name) ==
    [cls |-> "AttributeError", is_exception |-> TRUE,
     msg |-> "object has no attribute '" \o name \o "'"]

FreeSlot ==
    [tool |-> "none", pc |-> "free", args |-> <<>>, chat_calls |-> <<>>,
     chat_outcome |-> NoOutcome, result |-> NoResult]

-----------------------------------------------------------------------------
(* The tool server: handlers *)

ToolExecutionError(text) == [cls |-> "ToolExecutionError", msg |-> text]

RaisedExc(e) == [kind |-> "raised", exc |-> e]

\* except Exception as e: raise ToolExecutionError(f"Failed to get business insights: {str(e)}")
BusinessAnalystExcept(e) ==
    IF e.is_exception
    THEN RaisedExc(ToolExecutionError("Failed to get business insights: " \o e.msg))
    ELSE RaisedExc(e)

\* Mutant: the handler re-raises what it caught.
DataRetrievalExcept_Reraise(e) == RaisedExc(e)

\* except Exception as e: raise ToolExecutionError(f"Failed to retrieve data: {str(e)}")
DataRetrievalExcept(e) ==
    IF e.is_exception
    THEN RaisedExc(ToolExecutionError("Failed to retrieve data: " \o e.msg))
    ELSE RaisedExc(e)

\* Mutant: the colon is left out of the instruction text.
RetrievalMessage_NoColon(data_source, query) ==
    "Retrieve data from " \o data_source \o " " \o query

\* message=f"Retrieve data from {data_source}: {query}"
RetrievalMessage(data_source, query) ==
    "Retrieve data from " \o data_source \o ": " \o query

\* self.suada.chat(payload=payload)
IssueChat(calls, message) == Append(calls, message)

BusinessAnalystAttrs == <<"response", "metrics", "insights", "recommendations", "risks">>

\* First attribute, in the order the handler reads them, that resp lacks; 0 if none.
FirstMissing(resp, attrs) ==
    IF \E k \in 1..Len(attrs) : ~HasAttr(resp, attrs[k])
    THEN CHOOSE k \in 1..Len(attrs) :
            /\ ~HasAttr(resp, attrs[k])
            /\ \A j \in 1..(k - 1) : HasAttr(resp, attrs[j])
    ELSE 0

\* Lines 155-165: the result mapping of business_analyst.
BusinessAnalystResult(resp) ==
    LET m == FirstMissing(resp, BusinessAnalystAttrs)
    IN  IF m # 0
        THEN BusinessAnalystExcept(AttributeError(BusinessAnalystAttrs[m]))
        ELSE Returned([response |-> resp.response,
                       metrics |-> Or(resp.metrics, Dict(EmptyMap)),
                       insights |-> Or(resp.insights, List(<<>>)),
                       recommendations |-> Or(resp.recommendations, List(<<>>)),
                       risks |-> Or(resp.risks, List(<<>>))])

\* Lines 214-224: the result mapping of data_retrieval.
DataRetrievalResult(data_source, query, resp) ==
    IF ~HasAttr(resp, "response")
    THEN DataRetrievalExcept(AttributeError("response"))
    ELSE Returned([data |-> resp.response,
                   metadata |-> [source |-> data_source, query |-> query]])

PcOf(r) == IF r.kind = "raised" THEN "raised" ELSE "returned"

\* business_analyst(query) is invoked in slot i and runs up to the chat call.
BusinessAnalyst(i, query, payload_outcome) ==
    /\ inv[i].pc # "chatting"
    /\ inv' = [inv EXCEPT ![i] =
                 IF payload_outcome = "raises"
                 THEN [tool |-> "business_analyst", pc |-> "raised",
                       args |-> [query |-> query], chat_calls |-> <<>>,
                       chat_outcome |-> NoOutcome,
                       result |-> BusinessAnalystExcept(PayloadError)]
                 ELSE [tool |-> "business_analyst", pc |-> "chatting",
                       args |-> [query |-> query],
                       chat_calls |-> IssueChat(<<>>, query),
                       chat_outcome |-> NoOutcome, result |-> NoResult]]
    /\ UNCHANGED clientVars

\* data_retrieval(data_source, query) is invoked in slot i and runs up to the chat call.
DataRetrieval(i, data_source, query, payload_outcome) ==
    /\ inv[i].pc # "chatting"
    /\ inv' = [inv EXCEPT ![i] =
                 IF payload_outcome = "raises"
                 THEN [tool |-> "data_retrieval", pc |-> "raised",
                       args |-> [data_source |-> data_source, query |-> query],
                       chat_calls |-> <<>>, chat_outcome |-> NoOutcome,
                       result |-> DataRetrievalExcept(PayloadError)]
                 ELSE [tool |-> "data_retrieval", pc |-> "chatting",
                       args |-> [data_source |-> data_source, query |-> query],
                       chat_calls |-> IssueChat(<<>>, RetrievalMessage(data_source, query)),
                       chat_outcome |-> NoOutcome, result |-> NoResult]]
    /\ UNCHANGED clientVars

\* The chat call of slot i returns resp and the handler runs to its end.
ChatReturns(i, resp) ==
    /\ inv[i].pc = "chatting"
    /\ LET r == IF inv[i].tool = "business_analyst"
                THEN BusinessAnalystResult(resp)
                ELSE DataRetrievalResult(inv[i].args.data_source, inv[i].args.query, resp)
       IN  inv' = [inv EXCEPT ![i].chat_outcome = [kind |-> "response", response |-> resp],
                              ![i].result = r,
                              ![i].pc = PcOf(r)]
    /\ UNCHANGED clientVars

\* The chat call of slot i raises e and the handler runs to its end.
ChatRaises(i, e) ==
    /\ inv[i].pc = "chatting"
    /\ LET r == IF inv[i].tool = "business_analyst"
                THEN BusinessAnalystExcept(e)
                ELSE DataRetrievalExcept(e)
       IN  inv' = [inv EXCEPT ![i].chat_outcome = [kind |-> "raised", exc |-> e],
                              ![i].result = r,
                              ![i].pc = "raised"]
    /\ UNCHANGED clientVars

-----------------------------------------------------------------------------
(* Specifications *)

ApiKey == "sk-test"

InitClient ==
    /\ \E b \in BaseUrls, u \in DefaultUserIds : client = SuadaMCPInit(ApiKey, b, u)
    /\ json_error_cls \in JsonErrorClasses
    /\ pc = "idle"
    /\ request = NoRequest
    /\ posts = <<>>
    /\ outcome = NoOutcome
    /\ result = NoResult

InitServer == inv = [i \in Slots |-> FreeSlot]

Init == InitClient /\ InitServer

Next ==
    \/ \E req \in MCPRequest : Process(req)
    \/ \E e \in TransportErrors : PostRaises(e)
    \/ \E resp \in HttpResponses : PostReturns(resp)

Spec == Init /\ [][Next]_vars

\* The server next to one fixed, idle client.
InitServerSpec ==
    /\ client = SuadaMCPInit(ApiKey, <<"https://suada.ai/api/public">>, NoneV)
    /\ json_error_cls = "RequestException"
    /\ pc = "idle"
    /\ request = NoRequest
    /\ posts = <<>>
    /\ outcome = NoOutcome
    /\ result = NoResult
    /\ InitServer

NextServer ==
    \/ \E i \in Slots, q \in ToolQueries, o \in PayloadOutcomes :
          BusinessAnalyst(i, q, o)
    \/ \E i \in Slots, d \in DataSources, q \in ToolQueries, o \in PayloadOutcomes :
          DataRetrieval(i, d, q, o)
    \/ \E i \in Slots, resp \in ChatResponses : ChatReturns(i, resp)
    \/ \E i \in Slots, e \in ChatErrors : ChatRaises(i, e)

SpecServer == InitServerSpec /\ [][NextServer]_vars

-----------------------------------------------------------------------------
(* Properties of SuadaMCP.process, checked under Spec *)

Finished == pc \in {"returned", "raised"}

Absent(v) == v = NoneV \/ v = Str("")

\* The outbound call failed as a RequestException: requests.post raised one
\* without a response, or the reply had a 4xx/5xx status.
FailedWithoutResponse == outcome.kind = "raised" /\ outcome.exc.is_request_exception
FailedWithResponse == outcome.kind = "response" /\ outcome.response.status_code >= 400
FailedCall == outcome # NoOutcome /\ (FailedWithoutResponse \/ FailedWithResponse)

\* The reply was a 2xx whose body parsed to a mapping.
SuccessfulCall ==
    /\ outcome # NoOutcome
    /\ outcome.kind = "response"
    /\ outcome.response.status_code \in 200..299
    /\ outcome.response.body.json
    /\ outcome.response.body.val.t = "dict"

\* C1: process is total: whatever the request and the outcome of the outbound
\* call, it ends by returning a Response and never lets an exception reach
\* its caller.
C1_ProcessNeverRaises ==
    /\ pc # "raised"
    /\ Finished => result.kind = "returned"

\* C2: with no user identifier in the request and none configured, process
\* returns a Response with non-null error and empty content, and no POST is
\* issued at any point of the invocation.
C2_MissingIdentifierNoPost ==
    (request # NoRequest /\ Absent(request.user_id)
        /\ Absent(client.external_user_identifier))
    => /\ posts = <<>>
       /\ pc = "returned"
       /\ result.kind = "returned"
       /\ result.response.error # NoneV
       /\ result.response.content = Str("")

C2_Witness ==
    /\ request # NoRequest
    /\ request.user_id = Str("")
    /\ client.external_user_identifier = NoneV
    /\ pc = "returned"
    /\ posts = <<>>
    /\ result.response.error # NoneV

\* C3: for every failed outbound call, process returns a Response with empty
\* content whose metadata.status_code is the HTTP status when the failure
\* carries a response and null when it carries none.
C3_StatusCodeOfFailure ==
    (Finished /\ FailedCall)
    => /\ result.kind = "returned"
       /\ result.response.content = Str("")
       /\ result.response.metadata.d.status_code =
            IF FailedWithResponse
            THEN Num(outcome.response.status_code)
            ELSE NoneV

\* C4: for every failed outbound call, the Response's error is the `message`
\* field of the error body when that body parses to a mapping with one, and
\* the generic text otherwise (unparseable body, no `message`, no response).
C4_ErrorTextOfFailure ==
    (Finished /\ FailedCall)
    => /\ result.kind = "returned"
       /\ result.response.error =
            IF /\ FailedWithResponse
               /\ outcome.response.body.json
               /\ outcome.response.body.val.t = "dict"
               /\ "message" \in DOMAIN outcome.response.body.val.d
            THEN outcome.response.body.val.d.message
            ELSE Str("Failed to communicate with Suada API")

\* C5: with a resolvable user identifier, the posted payload is exactly
\* {message: query, externalUserIdentifier: uid, context: context}, uid being
\* the request's user_id if supplied and else the configured default, plus
\* conversationId exactly when the request carries a conversation_id; nothing
\* else (such as the request's metadata) is sent.
C5_ExactPayload ==
    LET uid == IF ~Absent(request.user_id)
               THEN request.user_id
               ELSE client.external_user_identifier
        keys == {"message", "externalUserIdentifier", "context"}
                  \cup (IF ~Absent(request.conversation_id)
                        THEN {"conversationId"} ELSE {})
    IN  (request # NoRequest /\ ~Absent(uid))
        => /\ Len(posts) >= 1
           /\ \A k \in 1..Len(posts) :
                /\ DOMAIN posts[k].json = keys
                /\ posts[k].json["message"] = request.query
                /\ posts[k].json["externalUserIdentifier"] = uid
                /\ posts[k].json["context"] = request.context
                /\ "conversationId" \in keys
                     => posts[k].json["conversationId"] = request.conversation_id

C5_Witness ==
    /\ request # NoRequest
    /\ request.user_id = NoneV
    /\ request.conversation_id = Str("c1")
    /\ request.metadata # Dict(EmptyMap)
    /\ Len(posts) = 1
    /\ posts[1].json["externalUserIdentifier"] = Str("default_user")
    /\ posts[1].json["conversationId"] = Str("c1")

InsightFields == {"metrics", "insights", "recommendations", "risks", "reasoning"}

EmptyOf(k) ==
    CASE k = "metrics"   -> Dict(EmptyMap)
      [] k = "reasoning" -> Str("")
      [] OTHER           -> List(<<>>)

\* Every field of the structured-insights block is the body's field when
\* present and the empty value of its kind when absent; content is the body's
\* `response` (empty text when absent); raw_response is the parsed body.
InsightsFollowBody ==
    LET body == outcome.response.body.val.d
        meta == result.response.metadata.d
    IN  /\ result.kind = "returned"
        /\ result.response.error = NoneV
        /\ DOMAIN meta = {"suada_data", "raw_response"}
        /\ DOMAIN meta.suada_data.d = InsightFields
        /\ \A k \in InsightFields :
             meta.suada_data.d[k] = IF k \in DOMAIN body THEN body[k] ELSE EmptyOf(k)
        /\ result.response.content =
             IF "response" \in DOMAIN body THEN body["response"] ELSE Str("")
        /\ meta.raw_response = outcome.response.body.val

\* C6 as stated: ... and no field of the block is ever null.
C6_Original ==
    (Finished /\ SuccessfulCall)
    => /\ InsightsFollowBody
       /\ \A k \in InsightFields :
            result.response.metadata.d.suada_data.d[k] # NoneV

\* C6: for every successful upstream body, each field of the structured
\* insights block equals the body's field when present and the empty
\* mapping / sequence / text when absent, so a field of the block is null only
\* when the body itself carries an explicit null for it; content is the body's
\* `response` (empty text when absent) and raw_response is the parsed body.
C6_Amended ==
    (Finished /\ SuccessfulCall)
    => /\ InsightsFollowBody
       /\ \A k \in InsightFields :
            result.response.metadata.d.suada_data.d[k] = NoneV
            => /\ k \in DOMAIN outcome.response.body.val.d
               /\ outcome.response.body.val.d[k] = NoneV

C6_Witness ==
    /\ pc = "returned"
    /\ SuccessfulCall
    /\ outcome.response.body.val = Dict([response |-> Str("ok"), metrics |-> NoneV])
    /\ result.response.metadata.d.suada_data.d.metrics = NoneV
    /\ result.response.metadata.d.suada_data.d.insights = List(<<>>)

\* C7 as stated: exactly one of non-empty content and non-null error.
C7_Original ==
    pc = "returned"
    => (Truthy(result.response.content) # (result.response.error # NoneV))

\* The upstream reply left both channels unset: a non-error reply whose body
\* has no (or an empty) `response`, or an error reply whose `message` is null.
BothChannelsUnsetUpstream ==
    /\ outcome # NoOutcome
    /\ outcome.kind = "response"
    /\ outcome.response.body.json
    /\ outcome.response.body.val.t = "dict"
    /\ LET body == outcome.response.body.val.d
       IN  IF outcome.response.status_code >= 400
           THEN "message" \in DOMAIN body /\ body["message"] = NoneV
           ELSE "response" \notin DOMAIN body \/ ~Truthy(body["response"])

\* C7: for every Response returned by process, at most one channel is set: a
\* non-null error always comes with empty content; a null error comes with
\* non-empty content unless the upstream body has no (or an empty) `response`
\* or carries a null `message`.
C7_Amended ==
    pc = "returned"
    => /\ result.response.error # NoneV => result.response.content = Str("")
       /\ result.response.error = NoneV
            => (Truthy(result.response.content) \/ BothChannelsUnsetUpstream)

C7_Witness ==
    /\ pc = "returned"
    /\ outcome # NoOutcome
    /\ outcome.kind = "response"
    /\ outcome.response.status_code = 200
    /\ outcome.response.body = Json(Dict(EmptyMap))
    /\ result.response.error = NoneV
    /\ result.response.content = Str("")

\* C10 as stated: every invocation makes exactly one POST to <base_url>/chat.
C10_Original ==
    Finished => Len(posts) = 1

\* C10: an invocation of process with a resolvable user identifier makes
\* exactly one POST to <base_url>/chat, whatever its outcome, and an
\* invocation without one makes none; there is never a second POST.
C10_Amended ==
    /\ Len(posts) <= 1
    /\ \A k \in 1..Len(posts) : posts[k].url = "https://suada.ai/api/public/chat"
    /\ Finished =>
         Len(posts) = IF Absent(request.user_id)
                          /\ Absent(client.external_user_identifier)
                      THEN 0 ELSE 1

C10_Witness ==
    /\ Finished
    /\ FailedCall
    /\ Len(posts) = 1
    /\ posts[1].url = "https://suada.ai/api/public/chat"

-----------------------------------------------------------------------------
(* Properties of the tool handlers, checked under SpecServer *)

\* C8 as stated: whatever is raised inside a handler body reaches the runtime
\* as one ToolExecutionError, never as the original exception type.
C8_Original ==
    \A i \in Slots :
        /\ Len(inv[i].chat_calls) <= 1
        /\ inv[i].pc = "raised" => inv[i].result.exc.cls = "ToolExecutionError"

ToolPrefix(tool) ==
    IF tool = "business_analyst"
    THEN "Failed to get business insights: "
    ELSE "Failed to retrieve data: "

\* C8: for both handlers, every error deriving from Exception that is raised
\* inside the body (payload construction, the chat call, reading the response
\* attributes) reaches the runtime as one ToolExecutionError whose message is
\* the tool's prefix followed by the original text; an exception deriving from
\* BaseException only (cancellation, KeyboardInterrupt) propagates unchanged.
\* An invocation ends by returning its mapping or by raising, with no retry.
C8_Amended ==
    \A i \in Slots :
        /\ Len(inv[i].chat_calls) <= 1
        /\ inv[i].pc \in {"returned", "raised"} => inv[i].result.kind = inv[i].pc
        /\ inv[i].pc = "raised" =>
             IF inv[i].chat_outcome = NoOutcome
             THEN inv[i].result.exc =
                    [cls |-> "ToolExecutionError",
                     msg |-> ToolPrefix(inv[i].tool) \o "invalid payload"]
             ELSE IF inv[i].chat_outcome.kind = "response"
             THEN /\ inv[i].result.exc.cls = "ToolExecutionError"
                  /\ inv[i].result.exc.msg # ToolPrefix(inv[i].tool)
             ELSE IF inv[i].chat_outcome.exc.is_exception
             THEN inv[i].result.exc =
                    [cls |-> "ToolExecutionError",
                     msg |-> ToolPrefix(inv[i].tool) \o inv[i].chat_outcome.exc.msg]
             ELSE inv[i].result.exc = inv[i].chat_outcome.exc

C8_Witness ==
    \E i, j \in Slots :
        /\ inv[i].tool = "business_analyst"
        /\ inv[i].pc = "raised"
        /\ inv[i].chat_outcome # NoOutcome
        /\ inv[i].chat_outcome.kind = "raised"
        /\ inv[i].chat_outcome.exc.cls = "SuadaAPIError"
        /\ inv[i].result.exc.cls = "ToolExecutionError"
        /\ inv[j].tool = "data_retrieval"
        /\ inv[j].pc = "raised"
        /\ inv[j].chat_outcome # NoOutcome
        /\ inv[j].chat_outcome.kind = "response"
        /\ inv[j].result.exc.cls = "ToolExecutionError"

\* C9: data_retrieval(data_source, query) makes one chat call whose message
\* is exactly "Retrieve data from {data_source}: {query}" and on success
\* returns {data: the upstream text, metadata: {source: data_source, query:
\* query}}, echoing its own two inputs also when invocations overlap.
C9_RetrievalMessageAndEcho ==
    \A i \in Slots :
        inv[i].tool = "data_retrieval" =>
            /\ Len(inv[i].chat_calls) <= 1
            /\ \A k \in 1..Len(inv[i].chat_calls) :
                 /\ inv[i].chat_calls[k] =
                      "Retrieve data from " \o inv[i].args.data_source
                          \o ": " \o inv[i].args.query
                 /\ (inv[i].args.data_source = "sales_db"
                        /\ inv[i].args.query = "top products")
                    => inv[i].chat_calls[k] = "Retrieve data from sales_db: top products"
            /\ inv[i].pc \in {"chatting", "returned"} => Len(inv[i].chat_calls) = 1
            /\ inv[i].pc = "raised" /\ inv[i].chat_outcome # NoOutcome
                 => Len(inv[i].chat_calls) = 1
            /\ inv[i].pc = "returned" =>
                 inv[i].result =
                    [kind |-> "returned",
                     response |->
                        [data |-> inv[i].chat_outcome.response.response,
                         metadata |-> [source |-> inv[i].args.data_source,
                                       query |-> inv[i].args.query]]]

C9_Witness ==
    \E i, j \in Slots :
        /\ i # j
        /\ inv[i].tool = "data_retrieval"
        /\ inv[j].tool = "data_retrieval"
        /\ inv[i].args = [data_source |-> "sales_db", query |-> "top products"]
        /\ inv[j].args = [data_source |-> "crm", query |-> "revenue trend"]
        /\ inv[j].pc = "chatting"
        /\ inv[i].pc = "returned"
        /\ inv[i].result.response.metadata = [source |-> "sales_db", query |-> "top products"]

====
